---- MODULE Spec2Model ----
(***************************************************************************)
(* FPI Investor Email Finder (src/streamlit_app.py).                       *)
(*                                                                         *)
(* Text is modelled as a sequence of one-character strings, so that        *)
(* substring tests, lower(), endswith(), strip() and the regular           *)
(* expression of the extractor are computed character by character.        *)
(***************************************************************************)
EXTENDS Integers, Sequences, FiniteSets, TLC

VARIABLES
    \* ---- the batch run (lines 99-116) ----
    fpi_names,        \* list of names loaded from the upload (line 54)
    pc,               \* position of the script in the main logic
    idx,              \* 1-based position of the for loop (line 103)
    website,          \* local `website` of the loop body (line 104)
    emails,           \* local `emails` of the loop body (lines 105, 107)
    results,          \* list `results` (lines 102, 108)
    detected_matches, \* st.session_state.detected_matches (lines 23, 114)
    summary,          \* the number shown by st.success (line 116)
    searchCalls,      \* log: search calls issued per entity (line 72)
    fetchCalls,       \* log: requests.get calls issued per entity (line 89)
    extractCalls,     \* log: extract_emails_from_html calls per entity (line 92)
    searchLog,        \* log: per entity, what the search call did
    fetchLog,         \* log: per entity, what the fetch did
    startedAt,        \* log: per entity, Len(results) when its search was issued
    \* ---- one call of get_best_website_for_name (SpecSelector) ----
    selPc, selResponse, selResult,
    \* ---- one call of extract_emails_from_html (SpecExtractor) ----
    exPc, exHtml, exResult

batchVars == <<fpi_names, pc, idx, website, emails, results, detected_matches,
               summary, searchCalls, fetchCalls, extractCalls, searchLog,
               fetchLog, startedAt>>
selVars == <<selPc, selResponse, selResult>>
exVars == <<exPc, exHtml, exResult>>
vars == <<batchVars, selVars, exVars>>

----------------------------------------------------------------------------
(* Bounds of the model *)

\* longest list of investor names in a batch
MaxNames == 3
\* longest page text built from Fragments
MaxFragments == 4

----------------------------------------------------------------------------
(* Python str operations used by the script *)

UpperCase == <<"A","B","C","D","E","F","G","H","I","J","K","L","M",
               "N","O","P","Q","R","S","T","U","V","W","X","Y","Z">>
LowerCase == <<"a","b","c","d","e","f","g","h","i","j","k","l","m",
               "n","o","p","q","r","s","t","u","v","w","x","y","z">>
Letters == {UpperCase[k] : k \in 1..26} \cup {LowerCase[k] : k \in 1..26}
Digits == {"0","1","2","3","4","5","6","7","8","9"}

\* str.lower(), one character
LowerChar(c) ==
    IF \E k \in 1..26 : UpperCase[k] = c
    THEN LowerCase[CHOOSE k \in 1..26 : UpperCase[k] = c]
    ELSE c

\* str.lower()
Lower(s) == [k \in 1..Len(s) |-> LowerChar(s[k])]

\* `sub in s`
Contains(s, sub) ==
    \E k \in 0..(Len(s) - Len(sub)) : SubSeq(s, k + 1, k + Len(sub)) = sub

\* s.endswith(suf)
EndsWith(s, suf) ==
    /\ Len(suf) <= Len(s)
    /\ SubSeq(s, Len(s) - Len(suf) + 1, Len(s)) = suf

\* s.strip(chars): drop leading and trailing characters that are in chars
Strip(s, chars) ==
    LET keep == {k \in 1..Len(s) : s[k] \notin chars}
        Min(S) == CHOOSE x \in S : \A y \in S : x <= y
        Max(S) == CHOOSE x \in S : \A y \in S : x >= y
    IN  IF keep = {} THEN <<>> ELSE SubSeq(s, Min(keep), Max(keep))

----------------------------------------------------------------------------
(* extract_emails_from_html, lines 58-67 *)

\* [a-zA-Z0-9_.+-]
LocalClass == Letters \cup Digits \cup {"_", ".", "+", "-"}
\* [a-zA-Z0-9-]
DomainClass == Letters \cup Digits \cup {"-"}
\* [a-zA-Z0-9-.]
TailClass == Letters \cup Digits \cup {"-", "."}

\* End of the longest run of characters of class cls that starts at p
\* (p itself when text[p] is not in cls): a greedy `[cls]*`.
RECURSIVE RunEnd(_, _, _)
RunEnd(text, p, cls) ==
    IF p <= Len(text) /\ text[p] \in cls THEN RunEnd(text, p + 1, cls) ELSE p

\* re.match of email_pattern at position s: the position after the match,
\* or 0 when the pattern does not match there.  Each of the three `+` is
\* greedy; backtracking cannot help, since the character that must follow
\* the first two runs ('@', '.') is outside the class of the run.
MatchEnd(text, s) ==
    LET a == RunEnd(text, s, LocalClass)
        d == RunEnd(text, a + 1, DomainClass)
        e == RunEnd(text, d + 1, TailClass)
    IN  IF /\ a > s
           /\ a <= Len(text) /\ text[a] = "@"
           /\ d > a + 1
           /\ d <= Len(text) /\ text[d] = "."
           /\ e > d + 1
        THEN e ELSE 0

\* re.findall(email_pattern, text) scanning from position s: leftmost
\* matches, not overlapping
RECURSIVE FindAllFrom(_, _)
FindAllFrom(text, s) ==
    IF s > Len(text) THEN <<>>
    ELSE LET e == MatchEnd(text, s)
         IN  IF e = 0 THEN FindAllFrom(text, s + 1)
             ELSE <<SubSeq(text, s, e - 1)>> \o FindAllFrom(text, e)

email_pattern_findall(text) == FindAllFrom(text, 1)

Seq2Set(s) == {s[k] : k \in 1..Len(s)}

\* the tuple of line 64
MediaExtensions == { <<".","p","n","g">>, <<".","j","p","g">>,
                     <<".","j","p","e","g">>, <<".","s","v","g">>,
                     <<".","g","i","f">> }

\* e.lower().endswith(('.png', '.jpg', '.jpeg', '.svg', '.gif'))
EndsWithMedia(e) == \E x \in MediaExtensions : EndsWith(Lower(e), x)

\* the characters of e.strip(".;,")
StripChars == {".", ";", ","}

\* the threshold of `len(e) > 6`
MinLen == 6

\* BeautifulSoup(html, "html.parser").get_text(): the pages of this model
\* hold no markup and no character references ('<', '>' and '&' are not in
\* their alphabet), and the text of such a page is the page.
get_text(html) == html

\* The set `cleaned` that line 67 turns into a list
extract_emails_from_html(html) ==
    LET text == get_text(html)
        found == Seq2Set(email_pattern_findall(text))
        cleaned == {e \in found : ~EndsWithMedia(e)}
    IN  {Strip(e, StripChars) :
            e \in {x \in cleaned : Len(x) > MinLen /\ Contains(x, <<".">>)}}

----------------------------------------------------------------------------
(* get_best_website_for_name, lines 69-85 *)

\* Python's None.  Every text of the model is a tuple of one-character
\* strings, so this one-element tuple is equal to no text.
None == <<"None">>

\* the sentinel "Not found" of lines 110-111
NotFound == <<"N","o","t"," ","f","o","u","n","d">>

\* a plausible slip: the test `if website:` is dropped
TruthyAlways(w) == TRUE

\* truth value of `website` in `if website:` and `website or ...`:
\* None and the empty string are false
Truthy(w) == w # None /\ w # <<>>

\* the literals of line 78
ContactWord == <<"c","o","n","t","a","c","t">>
EmailWord == <<"e","m","a","i","l">>

\* num=3 of the search request (line 72)
NumResults == 3

\* result.get('snippet', "")
SnippetOf(result) == IF result.hasSnippet THEN result.snippet ELSE <<>>

\* the test of line 78
Preferred(url, snippet) ==
    \/ Contains(Lower(url), ContactWord)
    \/ Contains(Lower(snippet), EmailWord)

\* The for loop of lines 74-80 from item k on, with the list `candidates`
\* built so far, then lines 81-85.  result['link'] of an item without a
\* link raises KeyError, which line 83 catches: the function returns None.
RECURSIVE SelectFrom(_, _, _)
SelectFrom(items, k, candidates) ==
    IF k > Len(items)
    THEN IF candidates # <<>> THEN candidates[1] ELSE None
    ELSE IF ~items[k].hasLink THEN None
    ELSE IF Preferred(items[k].link, SnippetOf(items[k])) THEN items[k].link
    ELSE SelectFrom(items, k + 1, Append(candidates, items[k].link))

\* a plausible slip: no early return, the top-ranked result always wins
SelectFirstOnly(search) ==
    IF search.raises \/ search.items = <<>> \/ ~search.items[1].hasLink
    THEN None ELSE search.items[1].link

\* a plausible slip: candidates[-1] instead of candidates[0]
RECURSIVE SelectLastFrom(_, _, _)
SelectLastFrom(items, k, candidates) ==
    IF k > Len(items)
    THEN IF candidates # <<>> THEN candidates[Len(candidates)] ELSE None
    ELSE IF ~items[k].hasLink THEN None
    ELSE IF Preferred(items[k].link, SnippetOf(items[k])) THEN items[k].link
    ELSE SelectLastFrom(items, k + 1, Append(candidates, items[k].link))

SelectLastCandidate(search) ==
    IF search.raises THEN None ELSE SelectLastFrom(search.items, 1, <<>>)

\* get_best_website_for_name(name, service).  `search` is what the call of
\* line 72 does for this name: it raises, or it returns a response whose
\* 'items' (none when the key is absent) are search.items.
get_best_website_for_name(search) ==
    IF search.raises THEN None ELSE SelectFrom(search.items, 1, <<>>)

----------------------------------------------------------------------------
(* crawl_and_get_emails, lines 87-96 *)

\* list(cleaned) of line 67: the elements of a set in some order
ListsOf(S) ==
    {l \in [1..Cardinality(S) -> S] : \A a, b \in 1..Cardinality(S) : l[a] = l[b] => a = b}

\* a plausible slip: the status check of line 90 is dropped
CrawlIgnoringStatus(fetch) ==
    IF fetch.raises THEN {<<>>} ELSE ListsOf(extract_emails_from_html(fetch.text))

\* crawl_and_get_emails(url): the lists the call may return.  `fetch` is what
\* requests.get does for the url: it raises, or it returns a response with
\* a status_code and a text.
crawl_and_get_emails(fetch) ==
    IF fetch.raises THEN {<<>>}
    ELSE IF fetch.status_code = 200 THEN ListsOf(extract_emails_from_html(fetch.text))
    ELSE {<<>>}

\* ", ".join(emails)
RECURSIVE Join(_)
Join(l) ==
    IF l = <<>> THEN <<>>
    ELSE IF Len(l) = 1 THEN l[1]
    ELSE l[1] \o <<",", " ">> \o Join(Tail(l))

----------------------------------------------------------------------------
(* Inputs: what the provider, the web and the upload may hand to the script *)

UrlPlain == <<"a",".","i","o">>
UrlContact == <<"a",".","i","o","/","c","o","n","t","a","c","t">>
UrlContactCaps == <<"b",".","i","n","/","C","o","n","t","a","c","t">>
UrlOther == <<"c",".","o","r","g">>
Urls == {UrlPlain, UrlContact, UrlContactCaps, UrlOther, <<>>}

SnippetEmail == <<"E","m","a","i","l"," ","u","s">>
SnippetAbout == <<"a","b","o","u","t">>
Snippets == {<<>>, SnippetEmail, SnippetAbout}

Item(url, snippet) ==
    [hasLink |-> TRUE, link |-> url, hasSnippet |-> TRUE, snippet |-> snippet]
\* a result with a link and no 'snippet' key
ItemNoSnippet(url) ==
    [hasLink |-> TRUE, link |-> url, hasSnippet |-> FALSE, snippet |-> <<>>]
\* a malformed result: no 'link' key
ItemNoLink ==
    [hasLink |-> FALSE, link |-> <<>>, hasSnippet |-> FALSE, snippet |-> <<>>]

Items ==
    {Item(u, s) : u \in Urls, s \in Snippets}
        \cup {ItemNoSnippet(u) : u \in Urls} \cup {ItemNoLink}

SearchRaises == [raises |-> TRUE, items |-> <<>>]
SearchReturns(items) == [raises |-> FALSE, items |-> items]

\* every outcome of the search call: at most NumResults results
Searches ==
    {SearchRaises} \cup
    {SearchReturns(its) : its \in UNION {[1..n -> Items] : n \in 0..NumResults}}

\* the spec's examples
JaneText == <<"c","o","n","t","a","c","t"," ","m","e"," ","a","t"," ","j","a","n","e"," ","[","a","t","]"," ","e","x","a","m","p","l","e",".","c","o","m"," ","p","l","e","a","s","e">>
JaneAddress == <<"j","a","n","e","@","e","x","a","m","p","l","e",".","c","o","m">>
LogoText == <<"s","e","e"," ","l","o","g","o","@","a","s","s","e","t","s",".","p","n","g"," ","a","n","d"," ","m","a","i","l"," ","j","o","h","n","@","e","x","a","m","p","l","e",".","o","r","g">>
JohnAddress == <<"j","o","h","n","@","e","x","a","m","p","l","e",".","o","r","g">>

\* pieces of page text
Fragments == { <<"a","@","b">>, <<".">>, <<"c","d">>, <<".","p","n","g">>,
               <<".","J","P","G">>, <<" ">>, <<";">>, <<"@">>,
               <<"[","a","t","]">> }

RECURSIVE Concat(_)
Concat(fs) == IF fs = <<>> THEN <<>> ELSE Head(fs) \o Concat(Tail(fs))

Pages ==
    {Concat(fs) : fs \in UNION {[1..n -> Fragments] : n \in 0..MaxFragments}}
        \cup {JaneText, LogoText}

\* the outcomes of the search call the batch run draws from
BatchSearches ==
    { SearchRaises,
      SearchReturns(<<>>),
      SearchReturns(<<ItemNoLink>>),
      SearchReturns(<<Item(UrlPlain, SnippetAbout)>>),
      SearchReturns(<<Item(UrlOther, <<>>), Item(UrlContact, SnippetAbout),
                      Item(UrlPlain, SnippetAbout)>>) }

FetchRaises == [raises |-> TRUE, status_code |-> 0, text |-> <<>>]
FetchReturns(status, text) == [raises |-> FALSE, status_code |-> status, text |-> text]

\* the outcomes of requests.get the batch run draws from
BatchFetches ==
    { FetchRaises,
      FetchReturns(404, LogoText),
      FetchReturns(200, JaneText),
      FetchReturns(200, LogoText) }

NamePool == <<"Alpha Fund", "Beta Capital", "Gamma Trust", "Delta LLP", "Epsilon Ltd">>
Names == {NamePool[k] : k \in 1..MaxNames}

\* df["Name"].dropna().unique().tolist() (line 54): no name twice
NameLists ==
    {l \in UNION {[1..n -> Names] : n \in 0..MaxNames} :
        \A a, b \in 1..Len(l) : l[a] = l[b] => a = b}

----------------------------------------------------------------------------
(* The main logic, lines 99-116 *)

Entities == 1..MaxNames

\* the dict appended at lines 108-112
ResultRow(name, w, es) ==
    [Name |-> name,
     Website |-> IF Truthy(w) THEN w ELSE NotFound,
     Emails |-> IF es # <<>> THEN Join(es) ELSE NotFound]

BatchInit ==
    /\ fpi_names \in NameLists
    /\ pc = "idle"
    /\ idx = 0
    /\ website = None
    /\ emails = <<>>
    /\ results = <<>>
    /\ detected_matches = <<>>
    /\ summary = -1
    /\ searchCalls = [k \in Entities |-> 0]
    /\ fetchCalls = [k \in Entities |-> 0]
    /\ extractCalls = [k \in Entities |-> 0]
    /\ searchLog = [k \in Entities |-> [outcome |-> "none", value |-> None]]
    /\ fetchLog = [k \in Entities |-> "none"]
    /\ startedAt = [k \in Entities |-> 0]

SelIdle == selPc = "unused" /\ selResponse = SearchRaises /\ selResult = None
ExIdle == exPc = "unused" /\ exHtml = <<>> /\ exResult = {}

\* Lines 99-102: the button is pressed with a non-empty list of names;
\* build() returns the service, or raises (nothing around line 101 catches
\* it, and the script run ends with the error).
PressButton ==
    /\ pc = "idle"
    /\ fpi_names # <<>>
    /\ \/ /\ pc' = "loop"
          /\ idx' = 1
          /\ results' = <<>>
       \/ /\ pc' = "crashed"
          /\ UNCHANGED <<idx, results>>
    /\ UNCHANGED <<fpi_names, website, emails, detected_matches, summary,
                   searchCalls, fetchCalls, extractCalls, searchLog, fetchLog,
                   startedAt, selVars, exVars>>

\* Lines 103-106: the next name, its search, `emails = []`, `if website:`
SearchName ==
    /\ pc = "loop"
    /\ idx <= Len(fpi_names)
    /\ \E search \in BatchSearches :
          /\ website' = get_best_website_for_name(search)
          /\ searchLog' = [searchLog EXCEPT ![idx] =
                [outcome |-> IF search.raises THEN "raised" ELSE "returned",
                 value |-> website']]
    /\ emails' = <<>>
    /\ searchCalls' = [searchCalls EXCEPT ![idx] = @ + 1]
    /\ startedAt' = [startedAt EXCEPT ![idx] = Len(results)]
    /\ pc' = IF Truthy(website') THEN "crawl" ELSE "append"
    /\ UNCHANGED <<fpi_names, idx, results, detected_matches, summary,
                   fetchCalls, extractCalls, fetchLog, selVars, exVars>>

\* Line 107: crawl_and_get_emails(website)
CrawlWebsite ==
    /\ pc = "crawl"
    /\ \E fetch \in BatchFetches :
          /\ emails' \in crawl_and_get_emails(fetch)
          /\ fetchLog' = [fetchLog EXCEPT ![idx] =
                IF fetch.raises THEN "exception"
                ELSE IF fetch.status_code = 200 THEN "ok" ELSE "non200"]
          /\ extractCalls' = [extractCalls EXCEPT ![idx] =
                IF ~fetch.raises /\ fetch.status_code = 200 THEN @ + 1 ELSE @]
    /\ fetchCalls' = [fetchCalls EXCEPT ![idx] = @ + 1]
    /\ pc' = "append"
    /\ UNCHANGED <<fpi_names, idx, website, results, detected_matches, summary,
                   searchCalls, searchLog, startedAt, selVars, exVars>>

\* a plausible slip: a row is kept only when emails were found
AppendOnlyFound ==
    /\ pc = "append"
    /\ results' = IF emails # <<>>
                  THEN Append(results, ResultRow(fpi_names[idx], website, emails))
                  ELSE results
    /\ idx' = idx + 1
    /\ pc' = "loop"
    /\ UNCHANGED <<fpi_names, website, emails, detected_matches, summary,
                   searchCalls, fetchCalls, extractCalls, searchLog, fetchLog,
                   startedAt, selVars, exVars>>

\* Lines 108-112: results.append({...}), then the loop goes to the next name
AppendResult ==
    /\ pc = "append"
    /\ results' = Append(results, ResultRow(fpi_names[idx], website, emails))
    /\ idx' = idx + 1
    /\ pc' = "loop"
    /\ UNCHANGED <<fpi_names, website, emails, detected_matches, summary,
                   searchCalls, fetchCalls, extractCalls, searchLog, fetchLog,
                   startedAt, selVars, exVars>>

\* Lines 113-116: the loop is over; the results are stored and the success
\* message shows len(fpi_names)
FinishBatch ==
    /\ pc = "loop"
    /\ idx > Len(fpi_names)
    /\ detected_matches' = results
    /\ summary' = Len(fpi_names)
    /\ pc' = "done"
    /\ UNCHANGED <<fpi_names, idx, website, emails, results,
                   searchCalls, fetchCalls, extractCalls, searchLog, fetchLog,
                   startedAt, selVars, exVars>>

Init == BatchInit /\ SelIdle /\ ExIdle

Next == PressButton \/ SearchName \/ CrawlWebsite \/ AppendResult \/ FinishBatch

Spec == Init /\ [][Next]_vars

----------------------------------------------------------------------------
(* One call of get_best_website_for_name on any outcome of the search *)

BatchIdle ==
    /\ fpi_names = <<>>
    /\ pc = "unused"
    /\ idx = 0
    /\ website = None
    /\ emails = <<>>
    /\ results = <<>>
    /\ detected_matches = <<>>
    /\ summary = -1
    /\ searchCalls = [k \in Entities |-> 0]
    /\ fetchCalls = [k \in Entities |-> 0]
    /\ extractCalls = [k \in Entities |-> 0]
    /\ searchLog = [k \in Entities |-> [outcome |-> "none", value |-> None]]
    /\ fetchLog = [k \in Entities |-> "none"]
    /\ startedAt = [k \in Entities |-> 0]

SelectorInit ==
    /\ selPc = "call"
    /\ selResponse \in Searches
    /\ selResult = None
    /\ BatchIdle /\ ExIdle

SelectorCall ==
    /\ selPc = "call"
    /\ selResult' = get_best_website_for_name(selResponse)
    /\ selPc' = "returned"
    /\ UNCHANGED <<selResponse, batchVars, exVars>>

SpecSelector == SelectorInit /\ [][SelectorCall]_vars

----------------------------------------------------------------------------
(* One call of extract_emails_from_html on any page *)

ExtractorInit ==
    /\ exPc = "call"
    /\ exHtml \in Pages
    /\ exResult = {}
    /\ BatchIdle /\ SelIdle

ExtractorCall ==
    /\ exPc = "call"
    /\ exResult' = extract_emails_from_html(exHtml)
    /\ exPc' = "returned"
    /\ UNCHANGED <<exHtml, batchVars, selVars>>

SpecExtractor == ExtractorInit /\ [][ExtractorCall]_vars

----------------------------------------------------------------------------
(* Properties of the batch run, checked under Spec *)

Processed == 1..Len(results)
FetchFailed(k) == fetchLog[k] \in {"exception", "non200"}

\* C1: the batch loop yields one record per input name, in input order:
\* at every moment results is a prefix-for-prefix image of fpi_names
\* (results[k].Name = fpi_names[k]), and when the loop has finished the
\* two have the same length, whatever searches and fetches failed.
C1_OrderPreserved ==
    /\ Len(results) <= Len(fpi_names)
    /\ \A k \in Processed : results[k].Name = fpi_names[k]
    /\ pc = "loop" => Len(results) = idx - 1
    /\ pc = "done" => /\ Len(results) = Len(fpi_names)
                      /\ detected_matches = results

\* C1 witness: a finished batch of three names in which one search raised,
\* one fetch failed and one fetched page held no address
C1_Witness ==
    /\ pc = "done"
    /\ Len(results) = 3
    /\ \E a, b, c \in Processed :
          /\ searchLog[a].outcome = "raised"
          /\ FetchFailed(b)
          /\ fetchLog[c] = "ok" /\ results[c].Emails = NotFound

\* C2: a fetch that raised or answered with a status other than 200 leaves
\* the entity with Emails = "Not found" and Website = the selected URL, runs
\* no extraction, and the loop moves on to the next name as after any other
\* entity (idx = Len(results) + 1 at the loop head; in a finished batch the
\* next name was searched and recorded).
C2_FetchFailureIsolated ==
    /\ pc = "loop" => idx = Len(results) + 1
    /\ \A k \in 1..Len(fpi_names) : FetchFailed(k) =>
          /\ extractCalls[k] = 0
          /\ (pc = "append" /\ idx = k) => emails = <<>>
          /\ k \in Processed =>
                /\ results[k].Emails = NotFound
                /\ results[k].Website = searchLog[k].value
                /\ results[k].Website # NotFound
          /\ pc = "done" =>
                /\ k \in Processed
                /\ k < Len(fpi_names) =>
                      searchCalls[k + 1] = 1 /\ k + 1 \in Processed

\* C2 witness: a finished batch whose first fetch answered non-200, whose
\* second fetch raised, and whose third entity still got its emails
C2_Witness ==
    /\ pc = "done"
    /\ Len(results) = 3
    /\ fetchLog[1] = "non200"
    /\ fetchLog[2] = "exception"
    /\ fetchLog[3] = "ok" /\ results[3].Emails = JohnAddress

\* C3: once the button is pressed no error of the search provider aborts
\* the batch: the run never ends in an uncaught error, an entity whose
\* search raised is recorded as "Not found"/"Not found" with no fetch, and
\* a finished batch holds every entity.
C3_NoSearchErrorAborts ==
    /\ pc # "crashed"
    /\ \A k \in Processed : searchLog[k].outcome = "raised" =>
          /\ results[k].Website = NotFound
          /\ results[k].Emails = NotFound
          /\ fetchCalls[k] = 0
    /\ pc = "done" => Len(results) = Len(fpi_names)

\* C8: the count shown after the batch is the number of results whose
\* Emails is not "Not found"
C8_SummaryCountsResolved ==
    pc = "done" =>
        summary = Cardinality({k \in Processed : results[k].Emails # NotFound})

\* C10: the external calls are strictly sequential per entity: at most one
\* search and one fetch per entity, exactly one search for every recorded
\* entity (and for every entity of a finished batch); a fetch only after the
\* entity's search returned a non-empty URL; extraction only after a
\* status-200 fetch; and the search of entity k is issued when exactly k-1
\* records have been appended, nothing being issued for later entities.
C10_SequentialProtocol ==
    /\ \A k \in Entities :
          /\ searchCalls[k] <= 1
          /\ fetchCalls[k] <= 1
          /\ extractCalls[k] <= fetchCalls[k]
          /\ k \in Processed => searchCalls[k] = 1
          /\ fetchCalls[k] = 1 =>
                /\ searchCalls[k] = 1
                /\ searchLog[k].outcome = "returned"
                /\ searchLog[k].value \notin {None, <<>>}
          /\ extractCalls[k] = 1 => fetchLog[k] = "ok"
          /\ searchCalls[k] = 1 => startedAt[k] = k - 1 /\ Len(results) >= k - 1
          /\ k > Len(results) + 1 => searchCalls[k] = 0 /\ fetchCalls[k] = 0
    /\ pc = "done" => \A k \in 1..Len(fpi_names) : searchCalls[k] = 1

\* C10 witness: a finished batch of three names with an entity that was
\* searched and not fetched, one fetched and not extracted, one extracted
C10_Witness ==
    /\ pc = "done"
    /\ Len(results) = 3
    /\ \E a, b, c \in Processed :
          /\ fetchCalls[a] = 0
          /\ fetchCalls[b] = 1 /\ extractCalls[b] = 0
          /\ extractCalls[c] = 1

----------------------------------------------------------------------------
(* Properties of the Site Selector, checked under SpecSelector *)

HasContact(url) == Contains(Lower(url), ContactWord)
HasEmail(snippet) == Contains(Lower(snippet), EmailWord)
WellFormed(items) == \A k \in 1..Len(items) : items[k].hasLink

\* three results with links, of which only the second URL contains "contact"
OnlySecondHasContact ==
    /\ ~selResponse.raises
    /\ Len(selResponse.items) = 3
    /\ WellFormed(selResponse.items)
    /\ ~HasContact(selResponse.items[1].link)
    /\ HasContact(selResponse.items[2].link)
    /\ ~HasContact(selResponse.items[3].link)

\* C4 as stated: with only the second URL containing "contact" the second
\* URL is returned, whatever the three snippets are
C4_SecondUrlForEverySnippet ==
    (selPc = "returned" /\ OnlySecondHasContact) =>
        selResult = selResponse.items[2].link

\* C4 amended: with only the second URL containing "contact", the second
\* URL is returned for every choice of the second and third snippets
\* provided the first snippet does not contain "email"; when it does, the
\* first URL is returned.
C4_SecondUrlUnlessFirstSnippet ==
    (selPc = "returned" /\ OnlySecondHasContact) =>
        IF HasEmail(SnippetOf(selResponse.items[1]))
        THEN selResult = selResponse.items[1].link
        ELSE /\ selResult = selResponse.items[2].link
             /\ selResult # selResponse.items[1].link

\* C4 witness: the second URL is returned although the third snippet
\* mentions email and the first result is a plain candidate
C4_Witness ==
    /\ selPc = "returned"
    /\ OnlySecondHasContact
    /\ ~HasEmail(SnippetOf(selResponse.items[1]))
    /\ HasEmail(SnippetOf(selResponse.items[3]))
    /\ selResult = UrlContactCaps

\* no result is preferred by line 78
NothingPreferred ==
    /\ ~selResponse.raises
    /\ WellFormed(selResponse.items)
    /\ \A k \in 1..Len(selResponse.items) :
          /\ ~HasContact(selResponse.items[k].link)
          /\ ~HasEmail(SnippetOf(selResponse.items[k]))

\* C5: when no result (each with its link) has "contact" in its URL or
\* "email" in its snippet, the selector returns the first result's URL, and
\* None when there are no results; never a lower-ranked URL.
C5_FallbackIsFirst ==
    (selPc = "returned" /\ NothingPreferred) =>
        IF selResponse.items = <<>>
        THEN selResult = None
        ELSE selResult = selResponse.items[1].link

\* C5 witness: three results, none preferred, the lower-ranked URLs differ
\* from the first, and the first is what was returned
C5_Witness ==
    /\ selPc = "returned"
    /\ NothingPreferred
    /\ Len(selResponse.items) = 3
    /\ selResponse.items[2].link # selResponse.items[1].link
    /\ selResponse.items[3].link # selResponse.items[1].link
    /\ selResult = selResponse.items[1].link
    /\ selResult = UrlPlain

----------------------------------------------------------------------------
(* Properties of the Email Extractor, checked under SpecExtractor *)

\* C6: no returned address ends, case-insensitively, in .png, .jpg, .jpeg,
\* .svg or .gif, stripped punctuation included
C6_NoMediaExtension ==
    exPc = "returned" => \A e \in exResult : ~EndsWithMedia(e)

\* C7: "local [at] domain" is rewritten to "local@domain": the example text
\* yields exactly the one address, and no returned address contains "[at]"
\* or whitespace
C7_ObfuscatedRecognised ==
    exPc = "returned" =>
        /\ exHtml = JaneText => exResult = {JaneAddress}
        /\ \A e \in exResult :
              /\ ~Contains(e, <<"[","a","t","]">>)
              /\ ~Contains(e, <<" ">>)

\* C9: every returned address is longer than six characters, also when the
\* length is reached only after the punctuation was stripped
C9_LongerThanSix ==
    exPc = "returned" => \A e \in exResult : Len(e) > 6

====
